---- MODULE Spec2Model ----
(***************************************************************************)
(* A model of python_concurrency_talk:                                     *)
(*   count_n_print.py   - threads incrementing a shared counter under two  *)
(*                        locks and printing it                            *)
(*   fetch_urls.py      - sequential / multiprocess / multiprocess2 /      *)
(*                        multiprocess3 / multithread                      *)
(*   async_fetch_urls.py- coroutine / coroutine2 / coroutine3              *)
(***************************************************************************)
EXTENDS Integers, Sequences, FiniteSets, TLC

VARIABLES
    \* ---- count_n_print.py ----
    counter,        \* the global counter
    counter_lock,   \* TRUE when threading.Lock counter_lock is locked
    printer_lock,   \* TRUE when threading.Lock printer_lock is locked
    holding,        \* per thread: the locks whose `with` block it is inside
    mpc,            \* position of the main thread in the module body
    mi,             \* index of the main thread's current for loop
    wpc,            \* position of each worker thread in worker()
    wtmp,           \* per worker: the value LOAD_GLOBAL counter pushed for +=
    out,            \* stdout: the sequence of chunks written so far
    \* ---- fetch_urls.py / async_fetch_urls.py ----
    sites,          \* the module-level list of keys (the batch)
    fails,          \* the keys for which the fetch operation raises
    ncalls,         \* the number of strategy calls the process has made
    loop_state,     \* the main thread's asyncio event loop: open, closed, unset
    last,           \* the previous call: its strategy, outcome and map
    strat,          \* the strategy being called ("none" between calls)
    pc,             \* position of the caller inside the strategy
    i,              \* the caller's loop index
    result,         \* the dict under construction, in insertion order
    task,           \* per batch index: state of its process, thread or task
    calls,          \* per batch index: number of fetch_site invocations
    elapsed,        \* per batch index: the duration its fetch_site measured
    orphans,        \* the Pools that calls which raised have left running
    queue,          \* the result channel (SimpleQueue / imap_unordered)
    cap,            \* number of results the SimpleQueue's pipe can buffer
    nworkers,       \* number of worker processes or threads of the pool
    pool            \* state of the pool's worker processes or threads

cvars == <<counter, counter_lock, printer_lock, holding, mpc, mi, wpc, wtmp, out>>

fvars == <<sites, fails, ncalls, loop_state, last, strat, pc, i, result, task,
           calls, elapsed, orphans, queue, cap, nworkers, pool>>

vars == <<cvars, fvars>>

-----------------------------------------------------------------------------
(* count_n_print.py                                                        *)

\* The number of worker threads (range(10) in the source, bounded here).
NumWorkers == 4

Main == 0
Workers == 1..NumWorkers
Threads == {Main} \cup Workers

\* One write to sys.stdout. print(s) writes s and then the end "\n".
Chunk(t, k, v) == [by |-> t, kind |-> k, val |-> v]

\* threading.Lock.__enter__: blocks until the lock is unlocked, then locks it.
Acquire(lock, name, t) ==
    /\ lock = FALSE
    /\ lock' = TRUE
    /\ holding' = [holding EXCEPT ![t] = @ \cup {name}]

\* threading.Lock.__exit__: unlock.
Release(lock, name, t) ==
    /\ lock' = FALSE
    /\ holding' = [holding EXCEPT ![t] = @ \ {name}]

InitCounter ==
    /\ counter = 0
    /\ counter_lock = FALSE
    /\ printer_lock = FALSE
    /\ holding = [t \in Threads |-> {}]
    /\ mpc = "acq_start"
    /\ mi = 0
    /\ wpc = [w \in Workers |-> "unstarted"]
    /\ wtmp = [w \in Workers |-> 0]
    /\ out = <<>>

\* ---- the main thread ----

\* line 14: with printer_lock:
MainAcquireStart ==
    /\ mpc = "acq_start"
    /\ Acquire(printer_lock, "printer", Main)
    /\ mpc' = "print_start"
    /\ UNCHANGED <<counter, counter_lock, mi, wpc, wtmp, out, fvars>>

\* line 15: print('starting threads'), the text
MainPrintStart ==
    /\ mpc = "print_start"
    /\ out' = Append(out, Chunk(Main, "start", 0))
    /\ mpc' = "print_start_nl"
    /\ UNCHANGED <<counter, counter_lock, printer_lock, holding, mi, wpc, wtmp, fvars>>

\* A main thread that starts the workers inside the with block of line 14.
MainPrintStartNlKeepLock ==
    /\ mpc = "print_start_nl"
    /\ out' = Append(out, Chunk(Main, "nl", 0))
    /\ mpc' = "spawn"
    /\ UNCHANGED <<counter, counter_lock, printer_lock, holding, mi, wpc, wtmp, fvars>>

\* line 15: print('starting threads'), the newline
MainPrintStartNl ==
    /\ mpc = "print_start_nl"
    /\ out' = Append(out, Chunk(Main, "nl", 0))
    /\ mpc' = "rel_start"
    /\ UNCHANGED <<counter, counter_lock, printer_lock, holding, mi, wpc, wtmp, fvars>>

\* line 14-15: leaving the with block
MainReleaseStart ==
    /\ mpc = "rel_start"
    /\ Release(printer_lock, "printer", Main)
    /\ mpc' = "spawn"
    /\ mi' = 0
    /\ UNCHANGED <<counter, counter_lock, wpc, wtmp, out, fvars>>

\* lines 17-20: one iteration of for i in range(N): t = Thread(...); t.start()
MainStartThread ==
    /\ mpc = "spawn"
    /\ mi < NumWorkers
    /\ wpc' = [wpc EXCEPT ![mi + 1] = "acq_counter"]
    /\ mi' = mi + 1
    /\ UNCHANGED <<counter, counter_lock, printer_lock, holding, mpc, wtmp, out, fvars>>

\* line 17: the range is exhausted; line 21: the join loop begins
MainSpawnDone ==
    /\ mpc = "spawn"
    /\ mi = NumWorkers
    /\ mpc' = "join"
    /\ mi' = 0
    /\ UNCHANGED <<counter, counter_lock, printer_lock, holding, wpc, wtmp, out, fvars>>

\* A join that returns without waiting for the thread.
MainJoinNoWait ==
    /\ mpc = "join"
    /\ mi < NumWorkers
    /\ mi' = mi + 1
    /\ UNCHANGED <<counter, counter_lock, printer_lock, holding, mpc, wpc, wtmp, out, fvars>>

\* lines 21-22: t.join() returns once thread t has terminated
MainJoin ==
    /\ mpc = "join"
    /\ mi < NumWorkers
    /\ wpc[mi + 1] = "done"
    /\ mi' = mi + 1
    /\ UNCHANGED <<counter, counter_lock, printer_lock, holding, mpc, wpc, wtmp, out, fvars>>

\* line 21: every thread was joined
MainJoinDone ==
    /\ mpc = "join"
    /\ mi = NumWorkers
    /\ mpc' = "acq_done"
    /\ UNCHANGED <<counter, counter_lock, printer_lock, holding, mi, wpc, wtmp, out, fvars>>

\* line 23: with printer_lock:
MainAcquireDone ==
    /\ mpc = "acq_done"
    /\ Acquire(printer_lock, "printer", Main)
    /\ mpc' = "print_done"
    /\ UNCHANGED <<counter, counter_lock, mi, wpc, wtmp, out, fvars>>

\* line 24: print('done!'), the text
MainPrintDone ==
    /\ mpc = "print_done"
    /\ out' = Append(out, Chunk(Main, "done", 0))
    /\ mpc' = "print_done_nl"
    /\ UNCHANGED <<counter, counter_lock, printer_lock, holding, mi, wpc, wtmp, fvars>>

\* line 24: print('done!'), the newline
MainPrintDoneNl ==
    /\ mpc = "print_done_nl"
    /\ out' = Append(out, Chunk(Main, "nl", 0))
    /\ mpc' = "rel_done"
    /\ UNCHANGED <<counter, counter_lock, printer_lock, holding, mi, wpc, wtmp, fvars>>

\* line 23-24: leaving the with block; the module body ends
MainReleaseDone ==
    /\ mpc = "rel_done"
    /\ Release(printer_lock, "printer", Main)
    /\ mpc' = "exit"
    /\ UNCHANGED <<counter, counter_lock, mi, wpc, wtmp, out, fvars>>

\* ---- worker() ----

\* A worker that enters the block without waiting for counter_lock.
WorkerAcquireCounterNoLock(w) ==
    /\ wpc[w] = "acq_counter"
    /\ wpc' = [wpc EXCEPT ![w] = "load"]
    /\ UNCHANGED <<counter, counter_lock, printer_lock, holding, mpc, mi, wtmp, out, fvars>>

\* A worker whose outer with block takes printer_lock.
WorkerAcquireCounterPrinterFirst(w) ==
    /\ wpc[w] = "acq_counter"
    /\ Acquire(printer_lock, "printer", w)
    /\ wpc' = [wpc EXCEPT ![w] = "load"]
    /\ UNCHANGED <<counter, counter_lock, mpc, mi, wtmp, out, fvars>>

\* line 9: with counter_lock:
WorkerAcquireCounter(w) ==
    /\ wpc[w] = "acq_counter"
    /\ Acquire(counter_lock, "counter", w)
    /\ wpc' = [wpc EXCEPT ![w] = "load"]
    /\ UNCHANGED <<counter, printer_lock, mpc, mi, wtmp, out, fvars>>

\* line 10: counter += 1, LOAD_GLOBAL counter
WorkerLoad(w) ==
    /\ wpc[w] = "load"
    /\ wtmp' = [wtmp EXCEPT ![w] = counter]
    /\ wpc' = [wpc EXCEPT ![w] = "store"]
    /\ UNCHANGED <<counter, counter_lock, printer_lock, holding, mpc, mi, out, fvars>>

\* line 10: counter += 1, INPLACE_ADD and STORE_GLOBAL counter
WorkerStore(w) ==
    /\ wpc[w] = "store"
    /\ counter' = wtmp[w] + 1
    /\ wpc' = [wpc EXCEPT ![w] = "acq_printer"]
    /\ UNCHANGED <<counter_lock, printer_lock, holding, mpc, mi, wtmp, out, fvars>>

\* A worker that prints without taking printer_lock.
WorkerAcquirePrinterNoLock(w) ==
    /\ wpc[w] = "acq_printer"
    /\ wpc' = [wpc EXCEPT ![w] = "print"]
    /\ UNCHANGED <<counter, counter_lock, printer_lock, holding, mpc, mi, wtmp, out, fvars>>

\* line 11: with printer_lock:
WorkerAcquirePrinter(w) ==
    /\ wpc[w] = "acq_printer"
    /\ Acquire(printer_lock, "printer", w)
    /\ wpc' = [wpc EXCEPT ![w] = "print"]
    /\ UNCHANGED <<counter, counter_lock, mpc, mi, wtmp, out, fvars>>

\* A worker that prints the value it loaded, not the value it stored.
WorkerPrintStale(w) ==
    /\ wpc[w] = "print"
    /\ out' = Append(out, Chunk(w, "counter", wtmp[w]))
    /\ wpc' = [wpc EXCEPT ![w] = "print_nl"]
    /\ UNCHANGED <<counter, counter_lock, printer_lock, holding, mpc, mi, wtmp, fvars>>

\* line 12: print(f'counter = {counter}'): the global is read, the text written
WorkerPrint(w) ==
    /\ wpc[w] = "print"
    /\ out' = Append(out, Chunk(w, "counter", counter))
    /\ wpc' = [wpc EXCEPT ![w] = "print_nl"]
    /\ UNCHANGED <<counter, counter_lock, printer_lock, holding, mpc, mi, wtmp, fvars>>

\* line 12: print(...), the newline
WorkerPrintNl(w) ==
    /\ wpc[w] = "print_nl"
    /\ out' = Append(out, Chunk(w, "nl", 0))
    /\ wpc' = [wpc EXCEPT ![w] = "rel_printer"]
    /\ UNCHANGED <<counter, counter_lock, printer_lock, holding, mpc, mi, wtmp, fvars>>

\* line 11-12: leaving the inner with block
WorkerReleasePrinter(w) ==
    /\ wpc[w] = "rel_printer"
    /\ Release(printer_lock, "printer", w)
    /\ wpc' = [wpc EXCEPT ![w] = "rel_counter"]
    /\ UNCHANGED <<counter, counter_lock, mpc, mi, wtmp, out, fvars>>

\* A worker that ends without unlocking counter_lock.
WorkerReleaseCounterKeep(w) ==
    /\ wpc[w] = "rel_counter"
    /\ wpc' = [wpc EXCEPT ![w] = "return"]
    /\ UNCHANGED <<counter, counter_lock, printer_lock, holding, mpc, mi, wtmp, out, fvars>>

\* line 9-12: leaving the outer with block
WorkerReleaseCounter(w) ==
    /\ wpc[w] = "rel_counter"
    /\ Release(counter_lock, "counter", w)
    /\ wpc' = [wpc EXCEPT ![w] = "return"]
    /\ UNCHANGED <<counter, printer_lock, mpc, mi, wtmp, out, fvars>>

\* worker() returns and the thread ends: join() on it no longer blocks
WorkerEnd(w) ==
    /\ wpc[w] = "return"
    /\ wpc' = [wpc EXCEPT ![w] = "done"]
    /\ UNCHANGED <<counter, counter_lock, printer_lock, holding, mpc, mi, wtmp, out, fvars>>

NextCounter ==
    \/ MainAcquireStart
    \/ MainPrintStart
    \/ MainPrintStartNl
    \/ MainReleaseStart
    \/ MainStartThread
    \/ MainSpawnDone
    \/ MainJoin
    \/ MainJoinDone
    \/ MainAcquireDone
    \/ MainPrintDone
    \/ MainPrintDoneNl
    \/ MainReleaseDone
    \/ \E w \in Workers : WorkerAcquireCounter(w)
    \/ \E w \in Workers : WorkerLoad(w)
    \/ \E w \in Workers : WorkerStore(w)
    \/ \E w \in Workers : WorkerAcquirePrinter(w)
    \/ \E w \in Workers : WorkerPrint(w)
    \/ \E w \in Workers : WorkerPrintNl(w)
    \/ \E w \in Workers : WorkerReleasePrinter(w)
    \/ \E w \in Workers : WorkerReleaseCounter(w)
    \/ \E w \in Workers : WorkerEnd(w)

\* The steps of the main thread.
MainNext ==
    \/ MainAcquireStart \/ MainPrintStart \/ MainPrintStartNl
    \/ MainReleaseStart \/ MainStartThread \/ MainSpawnDone
    \/ MainJoin \/ MainJoinDone
    \/ MainAcquireDone \/ MainPrintDone \/ MainPrintDoneNl
    \/ MainReleaseDone

\* The steps of worker thread w.
WorkerNext(w) ==
    \/ WorkerAcquireCounter(w) \/ WorkerLoad(w) \/ WorkerStore(w)
    \/ WorkerAcquirePrinter(w) \/ WorkerPrint(w) \/ WorkerPrintNl(w)
    \/ WorkerReleasePrinter(w) \/ WorkerReleaseCounter(w) \/ WorkerEnd(w)

-----------------------------------------------------------------------------
(* Properties of count_n_print.py                                          *)

AllWorkersDone == \A w \in Workers : wpc[w] = "done"

DonePrinted == \E x \in 1..Len(out) : out[x].kind = "done"

IsCounterChunk(c) == c.kind = "counter"

\* The counter lines printed so far, in order.
CounterChunks == SelectSeq(out, IsCounterChunk)

\* The threads positioned inside a print call.
Printing ==
    {t \in Workers : wpc[t] \in {"print", "print_nl"}}
    \cup (IF mpc \in {"print_start", "print_start_nl", "print_done", "print_done_nl"}
          THEN {Main} ELSE {})

\* 'starting threads' and its newline are the first two chunks of stdout.
StartLinePrinted ==
    /\ Len(out) >= 2
    /\ out[1] = Chunk(Main, "start", 0)
    /\ out[2] = Chunk(Main, "nl", 0)

\* The workers that have executed the store of counter += 1.
Stored ==
    {w \in Workers :
        wpc[w] \in {"acq_printer", "print", "print_nl", "rel_printer",
                    "rel_counter", "return", "done"}}

\* C1: no lost updates: the counter always equals the number of workers that
\* have stored their increment, so once every worker thread has terminated it
\* equals the number of workers.
C1_NoLostUpdates ==
    /\ counter = Cardinality(Stored)
    /\ AllWorkersDone => counter = NumWorkers

C1_Witness == AllWorkersDone /\ mpc = "exit" /\ counter = NumWorkers

\* C2: 'done!' is printed only after every worker has terminated: whenever
\* 'done!' is on stdout every worker is in its final position (so none can
\* increment or print any more) and no chunk after 'done!' is a worker's.
C2_DoneAfterAllWorkers ==
    DonePrinted =>
        /\ AllWorkersDone
        /\ \A x, y \in 1..Len(out) :
               (out[x].kind = "done" /\ y > x) => out[y].by = Main

C2_Witness == DonePrinted /\ AllWorkersDone /\ Len(CounterChunks) = NumWorkers

\* C3: the k-th counter line printed carries the value k (so the values are
\* distinct and strictly increasing), each is the value its printer stored,
\* each worker prints one line, and at exit exactly NumWorkers counter lines
\* stand between 'starting threads' and 'done!'.
C3_PrintedSequence ==
    /\ \A k \in 1..Len(CounterChunks) :
           /\ CounterChunks[k].val = k
           /\ CounterChunks[k].val = wtmp[CounterChunks[k].by] + 1
    /\ \A y, k \in 1..Len(CounterChunks) :
           y # k => CounterChunks[y].by # CounterChunks[k].by
    /\ mpc = "exit" =>
           /\ Len(CounterChunks) = NumWorkers
           /\ Len(out) = 2 * NumWorkers + 4
           /\ out[1].kind = "start"
           /\ out[Len(out) - 1].kind = "done"
           /\ \A x \in 2..(Len(out) - 2) : out[x].kind \in {"counter", "nl"}

\* The workers printed in an order other than their start order.
C3_Witness ==
    /\ mpc = "exit"
    /\ Len(CounterChunks) = NumWorkers
    /\ CounterChunks[1].by = NumWorkers
    /\ CounterChunks[NumWorkers].val = NumWorkers

\* C4: a thread inside print holds printer_lock, at most one thread holds
\* printer_lock (and then the lock is locked), and prints do not overlap: every
\* text chunk on stdout is followed by its own writer's newline.
C4_OutputMutex ==
    /\ \A t \in Printing : "printer" \in holding[t]
    /\ Cardinality({t \in Threads : "printer" \in holding[t]}) <= 1
    /\ (\E t \in Threads : "printer" \in holding[t]) => printer_lock
    /\ Cardinality(Printing) <= 1
    /\ \A x \in 1..Len(out) :
           out[x].kind # "nl" =>
               \/ x = Len(out) /\ out[x].by \in Printing
               \/ x < Len(out) /\ out[x + 1] = Chunk(out[x].by, "nl", 0)

\* A worker is between its text and its newline while others wait to start.
C4_Witness ==
    \E w \in Workers :
        /\ wpc[w] = "print_nl"
        /\ "printer" \in holding[w]
        /\ \E v \in Workers : wpc[v] = "acq_counter"

\* C5: in the step that starts a worker thread, 'starting threads' and its
\* newline are already on stdout and the main thread has released
\* printer_lock (when the first worker starts the lock is unlocked).
C5_StartBeforeWorkers ==
    [][(\E w \in Workers : wpc[w] = "unstarted" /\ wpc'[w] # "unstarted") =>
           /\ StartLinePrinted
           /\ "printer" \notin holding[Main]
           /\ (\A w \in Workers : wpc[w] = "unstarted") => ~printer_lock]_vars

C5_Witness ==
    /\ \E w \in Workers : wpc[w] # "unstarted"
    /\ StartLinePrinted
    /\ mpc = "spawn"

\* C15: a worker asks for counter_lock holding nothing and for printer_lock
\* holding counter_lock, so whoever holds printer_lock and may still ask for
\* a lock is not a worker: no thread holds printer_lock while it asks for
\* counter_lock.  The main thread takes printer_lock alone and never
\* counter_lock.
C15_LockOrder ==
    /\ \A w \in Workers :
           /\ wpc[w] = "acq_counter" => holding[w] = {}
           /\ wpc[w] = "acq_printer" => holding[w] = {"counter"}
           /\ "printer" \in holding[w] => "counter" \in holding[w]
    /\ holding[Main] \subseteq {"printer"}
    /\ mpc \in {"acq_start", "acq_done"} => holding[Main] = {}

\* A worker holds both locks while another one asks for counter_lock.
C15_Witness ==
    \E w, v \in Workers :
        /\ holding[w] = {"counter", "printer"}
        /\ wpc[v] = "acq_counter"

\* The threads that were started and have not ended.
Live ==
    {t \in Threads : IF t = Main THEN mpc # "exit"
                                 ELSE wpc[t] \notin {"unstarted", "done"}}

\* Thread t waits for a lock that is locked.
BlockedOnLock(t) ==
    IF t = Main
    THEN mpc \in {"acq_start", "acq_done"} /\ printer_lock
    ELSE \/ wpc[t] = "acq_counter" /\ counter_lock
         \/ wpc[t] = "acq_printer" /\ printer_lock

\* The script has run to its end.
Finished ==
    /\ mpc = "exit" /\ AllWorkersDone /\ DonePrinted
    /\ ~counter_lock /\ ~printer_lock
    /\ \A t \in Threads : holding[t] = {}

\* C16: with every thread scheduled fairly, each worker gets to hold both
\* locks and the script runs to its end: all workers terminated, both locks
\* unlocked, 'done!' printed.  In no state are all live threads blocked on a
\* lock, and until the script ends some thread can take a step.
C16_DeadlockFree ==
    /\ [](/\ ~(Live # {} /\ \A t \in Live : BlockedOnLock(t))
          /\ mpc # "exit" => ENABLED NextCounter)
    /\ \A w \in Workers : <>(holding[w] = {"counter", "printer"})
    /\ <>[]Finished

\* The script has ended with the counter at the number of workers and the
\* last line printed by the main thread.
C16_Witness ==
    /\ Finished
    /\ out[Len(out) - 1].kind = "done"
    /\ Len(CounterChunks) = NumWorkers

-----------------------------------------------------------------------------
(* fetch_urls.py and async_fetch_urls.py                                   *)
(*                                                                         *)
(* fetch_site is the injected operation: it is modelled by the             *)
(* stub (url, len(url), measured duration) that raises for the keys in     *)
(* fails.  A process calls strategies one after another on the same sites. *)
(* The library calls behave as in CPython 3.11 with the fork start method. *)

\* The longest batch.
MaxBatch == 2
\* The largest number of keys the fetch operation fails for.
MaxFail == 1
\* The largest number of results the SimpleQueue's pipe buffers.
MaxCap == 2
\* The largest number of worker processes or threads of a pool.
MaxPool == 2
\* The largest number of strategy calls a process makes.
MaxCalls == 3

Keys == {"a", "bb", "ccc"}

\* len(key)
KeyLen(k) == CASE k = "a" -> 1 [] k = "bb" -> 2 [] k = "ccc" -> 3

Batches == UNION {[1..n -> Keys] : n \in 0..MaxBatch}

Strategies ==
    {"sequential", "multiprocess", "multiprocess2", "multiprocess3",
     "multithread", "coroutine", "coroutine2", "coroutine3"}

N == Len(sites)
Idx == 1..N

Range(f) == {f[x] : x \in DOMAIN f}

\* Whether fetch_site(sites[j]) raises.
FetchFails(j) == sites[j] \in fails

\* The durations fetch_site can measure, in ticks of the clock.  time() is the
\* wall clock: the difference of two readings differs from run to run, is 0
\* when the answer comes within the clock's resolution, and is negative when
\* the clock was set back in between.
Durations == {-1, 0, 1}

\* fetch_site(url) when it does not raise: url, len(page), duration
FetchResult(j) == <<sites[j], KeyLen(sites[j]), elapsed[j]>>

\* lines 19-21: fetch_site(sites[j]) ends: when it does not raise, the time
\* it measured is one of the durations
\* The tuple returned by the fetch_site(sites[j]) that ends in this step.
FetchResultNew(j) == <<sites[j], KeyLen(sites[j]), elapsed'[j]>>

Measured(j) ==
    IF FetchFails(j) THEN elapsed' = elapsed
    ELSE \E d \in Durations : elapsed' = [elapsed EXCEPT ![j] = d]

\* result[url] = size, duration on a dict kept in insertion order: a new key is
\* appended, an existing key keeps its place and takes the new value.
DictSet(d, t) ==
    IF \E x \in 1..Len(d) : d[x][1] = t[1]
    THEN [x \in 1..Len(d) |-> IF d[x][1] = t[1] THEN t ELSE d[x]]
    ELSE Append(d, t)

\* The dict's content without order or timing: its (key, size) pairs.
MapOf(d) == {<<d[x][1], d[x][2]>> : x \in 1..Len(d)}

KeysOf(d) == {d[x][1] : x \in 1..Len(d)}

NoTasks == [j \in Idx |-> "none"]

NoLast == [strategy |-> "none", outcome |-> "none", map |-> {}]

\* The number of a pool's workers that have a task of t.
BusyIn(t) == Cardinality({j \in Idx : t[j] \in {"taken", "running"}})

\* The number of busy workers of the call's pool.
Busy == BusyIn(task)

InitFetch ==
    /\ sites \in Batches
    /\ fails \in {S \in SUBSET Range(sites) : Cardinality(S) <= MaxFail}
    /\ ncalls = 0
    /\ loop_state = "open"
    /\ last = NoLast
    /\ strat = "none"
    /\ pc = "idle"
    /\ i = 0
    /\ result = <<>>
    /\ task = NoTasks
    /\ calls = [j \in Idx |-> 0]
    /\ elapsed = [j \in Idx |-> 0]
    /\ orphans = <<>>
    /\ queue = <<>>
    /\ cap = 0
    /\ nworkers = 0
    /\ pool = "none"

\* The fetch variables while only count_n_print.py runs.
FetchUnused ==
    /\ sites = <<>>
    /\ fails = {}
    /\ ncalls = 0
    /\ loop_state = "open"
    /\ last = NoLast
    /\ strat = "none"
    /\ pc = "idle"
    /\ i = 0
    /\ result = <<>>
    /\ task = <<>>
    /\ calls = <<>>
    /\ elapsed = <<>>
    /\ orphans = <<>>
    /\ queue = <<>>
    /\ cap = 0
    /\ nworkers = 0
    /\ pool = "none"

\* The counter variables while only the fetch strategies run.
CounterUnused == InitCounter

\* ---- the caller: entering and leaving a strategy ----

FirstPc(s) ==
    CASE s = "sequential" -> "seq_fetch"
      [] s = "multiprocess" -> "mp_queue"
      [] s = "multiprocess2" -> "mp2_pool"
      [] s \in {"multiprocess3", "multithread"} -> "ex_pool"
      [] s \in {"coroutine", "coroutine2"} -> "co_getloop"
      [] s = "coroutine3" -> "co3_run"

\* The process calls a strategy: the strategy's locals are fresh.  The callers
\* are outside the module; the sequence of calls a process makes is an input,
\* of at most MaxCalls calls.
Call(s) ==
    /\ strat = "none"
    /\ ncalls < MaxCalls
    /\ ncalls' = ncalls + 1
    /\ strat' = s
    /\ pc' = FirstPc(s)
    /\ i' = 1
    /\ result' = <<>>
    /\ task' = NoTasks
    /\ calls' = [j \in Idx |-> 0]
    /\ elapsed' = [j \in Idx |-> 0]
    /\ queue' = <<>>
    /\ cap' = 0
    /\ nworkers' = 0
    /\ pool' = "none"
    /\ UNCHANGED <<sites, fails, orphans, loop_state, last, cvars>>

\* The call has returned its dict or raised: the caller records the outcome.
Leave ==
    /\ pc \in {"returned", "raised"}
    /\ last' = [strategy |-> strat, outcome |-> pc,
                map |-> IF pc = "returned" THEN MapOf(result) ELSE {}]
    /\ strat' = "none"
    /\ pc' = "idle"
    /\ i' = 0
    /\ result' = <<>>
    /\ task' = NoTasks
    /\ calls' = [j \in Idx |-> 0]
    /\ elapsed' = [j \in Idx |-> 0]
    /\ queue' = <<>>
    /\ cap' = 0
    /\ nworkers' = 0
    /\ pool' = "none"
    /\ orphans' = IF strat = "multiprocess2" /\ pool = "up"
                  THEN Append(orphans, [task |-> task, calls |-> calls,
                                        nworkers |-> nworkers])
                  ELSE orphans
    /\ UNCHANGED <<sites, fails, ncalls, loop_state, cvars>>

\* ---- sequential(), fetch_urls.py lines 25-30 ----

\* line 28: fetch_site(url) in the caller's thread; an exception propagates
SeqFetch ==
    /\ strat = "sequential" /\ pc = "seq_fetch"
    /\ i <= N
    /\ calls' = [calls EXCEPT ![i] = @ + 1]
    /\ IF FetchFails(i)
       THEN /\ task' = [task EXCEPT ![i] = "err"]
            /\ pc' = "raised"
       ELSE /\ task' = [task EXCEPT ![i] = "ok"]
            /\ pc' = "seq_insert"
    /\ Measured(i)
    /\ UNCHANGED <<sites, fails, ncalls, orphans, loop_state, last, strat, i, result,
                   queue, cap, nworkers, pool, cvars>>

\* line 29 with the entry put in front of the dict instead of at its end
SeqInsertFront ==
    /\ strat = "sequential" /\ pc = "seq_insert"
    /\ result' = <<FetchResult(i)>> \o result
    /\ task' = [task EXCEPT ![i] = "got"]
    /\ i' = i + 1
    /\ pc' = "seq_fetch"
    /\ UNCHANGED <<sites, fails, ncalls, elapsed, orphans, loop_state, last, strat, calls,
                   queue, cap, nworkers, pool, cvars>>

\* line 29: result[url] = size, duration
SeqInsert ==
    /\ strat = "sequential" /\ pc = "seq_insert"
    /\ result' = DictSet(result, FetchResult(i))
    /\ task' = [task EXCEPT ![i] = "got"]
    /\ i' = i + 1
    /\ pc' = "seq_fetch"
    /\ UNCHANGED <<sites, fails, ncalls, elapsed, orphans, loop_state, last, strat, calls,
                   queue, cap, nworkers, pool, cvars>>

\* line 30: return result
SeqReturn ==
    /\ strat = "sequential" /\ pc = "seq_fetch"
    /\ i > N
    /\ pc' = "returned"
    /\ UNCHANGED <<sites, fails, ncalls, elapsed, orphans, loop_state, last, strat, i, result,
                   task, calls, queue, cap, nworkers, pool, cvars>>

\* ---- multiprocess(), fetch_urls.py lines 33-47 ----

\* line 35: queue = SimpleQueue(): a pipe whose buffer holds a finite number
\* of pickled results (none when one result is larger than the buffer)
MpQueue ==
    /\ strat = "multiprocess" /\ pc = "mp_queue"
    /\ \E c \in 0..MaxCap : cap' = c
    /\ pc' = "mp_spawn"
    /\ UNCHANGED <<sites, fails, ncalls, elapsed, orphans, loop_state, last, strat, i, result,
                   task, calls, queue, nworkers, pool, cvars>>

\* lines 37-40: p = Process(...); p.start(): the child process runs
MpStart ==
    /\ strat = "multiprocess" /\ pc = "mp_spawn"
    /\ i <= N
    /\ task' = [task EXCEPT ![i] = "started"]
    /\ i' = i + 1
    /\ UNCHANGED <<sites, fails, ncalls, elapsed, orphans, loop_state, last, strat, pc, result,
                   calls, queue, cap, nworkers, pool, cvars>>

\* line 38, in the child: the lambda calls fetch_site(url)
MpChildCall(j) ==
    /\ strat = "multiprocess"
    /\ task[j] = "started"
    /\ task' = [task EXCEPT ![j] = "running"]
    /\ calls' = [calls EXCEPT ![j] = @ + 1]
    /\ UNCHANGED <<sites, fails, ncalls, elapsed, orphans, loop_state, last, strat, pc, i,
                   result, queue, cap, nworkers, pool, cvars>>

\* line 37: the batch is exhausted; line 41: the join loop begins
MpSpawnDone ==
    /\ strat = "multiprocess" /\ pc = "mp_spawn"
    /\ i > N
    /\ pc' = "mp_join"
    /\ i' = 1
    /\ UNCHANGED <<sites, fails, ncalls, elapsed, orphans, loop_state, last, strat, result,
                   task, calls, queue, cap, nworkers, pool, cvars>>

\* line 38, in the child: fetch_site(url) returns, or raises and the child
\* dies with a traceback without sending anything
MpFetched(j) ==
    /\ strat = "multiprocess"
    /\ task[j] = "running"
    /\ task' = [task EXCEPT ![j] = IF FetchFails(j) THEN "err" ELSE "sending"]
    /\ Measured(j)
    /\ UNCHANGED <<sites, fails, ncalls, orphans, loop_state, last, strat, pc, i, result,
                   calls, queue, cap, nworkers, pool, cvars>>

\* line 38, in the child: q.put(...) writes to the pipe, blocking while the
\* pipe's buffer is full
MpPut(j) ==
    /\ strat = "multiprocess"
    /\ task[j] = "sending"
    /\ Len(queue) < cap
    /\ queue' = Append(queue, FetchResult(j))
    /\ task' = [task EXCEPT ![j] = "sent"]
    /\ UNCHANGED <<sites, fails, ncalls, elapsed, orphans, loop_state, last, strat, pc, i, result,
                   calls, cap, nworkers, pool, cvars>>

\* line 38, in the child: the target returns and the process exits
MpExit(j) ==
    /\ strat = "multiprocess"
    /\ task[j] = "sent"
    /\ task' = [task EXCEPT ![j] = "ok"]
    /\ UNCHANGED <<sites, fails, ncalls, elapsed, orphans, loop_state, last, strat, pc, i, result,
                   calls, queue, cap, nworkers, pool, cvars>>

\* A join that returns while the child is still alive.
MpJoinNoWait ==
    /\ strat = "multiprocess" /\ pc = "mp_join"
    /\ i <= N
    /\ i' = i + 1
    /\ UNCHANGED <<sites, fails, ncalls, elapsed, orphans, loop_state, last, strat, pc, result,
                   task, calls, queue, cap, nworkers, pool, cvars>>

\* lines 41-42: p.join() returns once child p has terminated
MpJoin ==
    /\ strat = "multiprocess" /\ pc = "mp_join"
    /\ i <= N
    /\ task[i] \in {"ok", "err"}
    /\ i' = i + 1
    /\ UNCHANGED <<sites, fails, ncalls, elapsed, orphans, loop_state, last, strat, pc, result,
                   task, calls, queue, cap, nworkers, pool, cvars>>

\* line 41: every child was joined; line 43: result = {}
MpJoinDone ==
    /\ strat = "multiprocess" /\ pc = "mp_join"
    /\ i > N
    /\ pc' = "mp_drain"
    /\ UNCHANGED <<sites, fails, ncalls, elapsed, orphans, loop_state, last, strat, i, result,
                   task, calls, queue, cap, nworkers, pool, cvars>>

\* lines 44-46: queue.empty() is false: get one result and insert it
MpGet ==
    /\ strat = "multiprocess" /\ pc = "mp_drain"
    /\ queue # <<>>
    /\ result' = DictSet(result, Head(queue))
    /\ queue' = Tail(queue)
    /\ UNCHANGED <<sites, fails, ncalls, elapsed, orphans, loop_state, last, strat, pc, i,
                   task, calls, cap, nworkers, pool, cvars>>

\* lines 44, 47: queue.empty() is true: return result
MpReturn ==
    /\ strat = "multiprocess" /\ pc = "mp_drain"
    /\ queue = <<>>
    /\ pc' = "returned"
    /\ UNCHANGED <<sites, fails, ncalls, elapsed, orphans, loop_state, last, strat, i, result,
                   task, calls, queue, cap, nworkers, pool, cvars>>

\* ---- pools: multiprocess2(), multiprocess3(), multithread() ----

\* lines 53, 63, 72: Pool() / ProcessPoolExecutor() / ThreadPoolExecutor():
\* the number of workers is the machine's (os.cpu_count())
PoolCreate ==
    /\ strat \in {"multiprocess2", "multiprocess3", "multithread"}
    /\ pc \in {"mp2_pool", "ex_pool"}
    /\ pool' = "up"
    /\ \E n \in 1..MaxPool : nworkers' = n
    /\ pc' = IF strat = "multiprocess2" THEN "mp2_submit" ELSE "ex_submit"
    /\ UNCHANGED <<sites, fails, ncalls, elapsed, orphans, loop_state, last, strat, i,
                   result, task, calls, queue, cap, cvars>>

\* line 54: pool.imap_unordered(fetch_site, sites) hands the batch to the
\* Pool's task handler thread and returns its iterator
Mp2Imap ==
    /\ strat = "multiprocess2" /\ pc = "mp2_submit"
    /\ pc' = "mp2_next"
    /\ UNCHANGED <<sites, fails, ncalls, elapsed, orphans, loop_state, last, strat, i,
                   result, task, calls, queue, cap, nworkers, pool, cvars>>

\* the Pool's task handler thread puts the next task of the batch into the
\* workers' queue
Mp2Feed(j) ==
    /\ strat = "multiprocess2" /\ pc # "mp2_submit"
    /\ pool = "up"
    /\ task[j] = "none"
    /\ \A k \in 1..(j - 1) : task[k] # "none"
    /\ task' = [task EXCEPT ![j] = "new"]
    /\ UNCHANGED <<sites, fails, ncalls, elapsed, orphans, loop_state, last, strat, pc,
                   i, result, calls, queue, cap, nworkers, pool, cvars>>

\* lines 64, 73: pool.map(fetch_site, sites) submits the keys one by one
ExSubmit ==
    /\ strat \in {"multiprocess3", "multithread"} /\ pc = "ex_submit"
    /\ i <= N
    /\ task' = [task EXCEPT ![i] = "new"]
    /\ i' = i + 1
    /\ UNCHANGED <<sites, fails, ncalls, elapsed, orphans, loop_state, last, strat, pc,
                   result, calls, queue, cap, nworkers, pool, cvars>>

\* lines 64, 73: every key is submitted: map returns its iterator
ExSubmitDone ==
    /\ strat \in {"multiprocess3", "multithread"} /\ pc = "ex_submit"
    /\ i > N
    /\ i' = 1
    /\ pc' = "ex_next"
    /\ UNCHANGED <<sites, fails, ncalls, elapsed, orphans, loop_state, last, strat,
                   result, task, calls, queue, cap, nworkers, pool, cvars>>

\* The status of a task that waits for a worker.
Waiting == IF strat = "multiprocess3" THEN "queued" ELSE "new"

\* multiprocess3: the executor's manager thread moves the oldest pending work
\* item into the call queue, which holds one item more than there are workers;
\* its future is running from then on and cannot be cancelled
ExQueue(j) ==
    /\ strat = "multiprocess3"
    /\ pool = "up"
    /\ task[j] = "new"
    /\ \A k \in 1..(j - 1) : task[k] # "new"
    /\ Cardinality({k \in Idx : task[k] = "queued"}) < nworkers + 1
    /\ task' = [task EXCEPT ![j] = "queued"]
    /\ UNCHANGED <<sites, fails, ncalls, elapsed, orphans, loop_state, last, strat, pc,
                   i, result, calls, queue, cap, nworkers, pool, cvars>>

\* a free pool worker takes the oldest waiting task
PoolTake(j) ==
    /\ strat \in {"multiprocess2", "multiprocess3", "multithread"}
    /\ pool = "up"
    /\ task[j] = Waiting
    /\ \A k \in 1..(j - 1) : task[k] # Waiting
    /\ Busy < nworkers
    /\ task' = [task EXCEPT ![j] = "taken"]
    /\ UNCHANGED <<sites, fails, ncalls, elapsed, orphans, loop_state, last, strat, pc,
                   i, result, calls, queue, cap, nworkers, pool, cvars>>

\* the worker calls fetch_site(url) for the task it took
PoolCall(j) ==
    /\ strat \in {"multiprocess2", "multiprocess3", "multithread"}
    /\ task[j] = "taken"
    /\ task' = [task EXCEPT ![j] = "running"]
    /\ calls' = [calls EXCEPT ![j] = @ + 1]
    /\ UNCHANGED <<sites, fails, ncalls, elapsed, orphans, loop_state, last, strat, pc,
                   i, result, queue, cap, nworkers, pool, cvars>>

\* multiprocess2: the worker's fetch_site returns or raises; the pool passes the
\* result or the exception to the iterator, in completion order
Mp2Finish(j) ==
    /\ strat = "multiprocess2"
    /\ task[j] = "running"
    /\ task' = [task EXCEPT ![j] = IF FetchFails(j) THEN "err" ELSE "ok"]
    /\ Measured(j)
    /\ queue' = Append(queue, [ok |-> ~FetchFails(j), val |-> FetchResultNew(j)])
    /\ UNCHANGED <<sites, fails, ncalls, orphans, loop_state, last, strat, pc, i, result,
                   calls, cap, nworkers, pool, cvars>>

\* line 54-55: the iterator yields the next completed result, or raises the
\* worker's exception (pool.close() is then never reached)
Mp2Next ==
    /\ strat = "multiprocess2" /\ pc = "mp2_next"
    /\ i <= N
    /\ queue # <<>>
    /\ queue' = Tail(queue)
    /\ IF Head(queue).ok
       THEN /\ result' = DictSet(result, Head(queue).val)
            /\ i' = i + 1
            /\ pc' = pc
       ELSE /\ pc' = "raised"
            /\ UNCHANGED <<result, i>>
    /\ UNCHANGED <<sites, fails, ncalls, elapsed, orphans, loop_state, last, strat,
                   task, calls, cap, nworkers, pool, cvars>>

\* lines 54, 56: the iterator is exhausted; pool.close()
Mp2Close ==
    /\ strat = "multiprocess2" /\ pc = "mp2_next"
    /\ i > N
    /\ pool' = "closing"
    /\ pc' = "mp2_return"
    /\ UNCHANGED <<sites, fails, ncalls, elapsed, orphans, loop_state, last, strat, i,
                   result, task, calls, queue, cap, nworkers, cvars>>

\* line 57: return result: the frame drops the last reference to the Pool,
\* whose finalizer terminates and joins the workers before the caller goes on
Mp2Return ==
    /\ strat = "multiprocess2" /\ pc = "mp2_return"
    /\ pool' = "down"
    /\ pc' = "returned"
    /\ UNCHANGED <<sites, fails, ncalls, elapsed, orphans, loop_state, last, strat, i,
                   result, task, calls, queue, cap, nworkers, cvars>>

\* after close() the idle workers of a Pool exit on their own
PoolWorkersExit ==
    /\ strat = "multiprocess2"
    /\ pool = "closing"
    /\ \A j \in Idx : task[j] \in {"ok", "err"}
    /\ pool' = "down"
    /\ UNCHANGED <<sites, fails, ncalls, elapsed, orphans, loop_state, last, strat, pc,
                   i, result, task, calls, queue, cap, nworkers, cvars>>

\* A worker that writes its result into the dict itself.
ExFinishInsert(j) ==
    /\ strat \in {"multiprocess3", "multithread"}
    /\ task[j] = "running"
    /\ task' = [task EXCEPT ![j] = IF FetchFails(j) THEN "err" ELSE "ok"]
    /\ Measured(j)
    /\ result' = IF FetchFails(j) THEN result
                 ELSE DictSet(result, FetchResultNew(j))
    /\ UNCHANGED <<sites, fails, ncalls, orphans, loop_state, last, strat, pc, i,
                   calls, queue, cap, nworkers, pool, cvars>>

\* multiprocess3 / multithread: the worker's fetch_site returns or raises; the
\* future holds the result or the exception
ExFinish(j) ==
    /\ strat \in {"multiprocess3", "multithread"}
    /\ task[j] = "running"
    /\ task' = [task EXCEPT ![j] = IF FetchFails(j) THEN "err" ELSE "ok"]
    /\ Measured(j)
    /\ UNCHANGED <<sites, fails, ncalls, orphans, loop_state, last, strat, pc, i, result,
                   calls, queue, cap, nworkers, pool, cvars>>

\* An iterator that yields whichever result is ready, as imap_unordered does.
ExNextAny ==
    /\ strat \in {"multiprocess3", "multithread"} /\ pc = "ex_next"
    /\ i <= N
    /\ \E j \in Idx :
           /\ task[j] = "ok"
           /\ result' = DictSet(result, FetchResult(j))
           /\ task' = [task EXCEPT ![j] = "got"]
    /\ i' = i + 1
    /\ UNCHANGED <<sites, fails, ncalls, elapsed, orphans, loop_state, last, strat, pc,
                   calls, queue, cap, nworkers, pool, cvars>>

\* lines 64-65, 73-74: map's iterator yields the results in submission order
ExNext ==
    /\ strat \in {"multiprocess3", "multithread"} /\ pc = "ex_next"
    /\ i <= N
    /\ task[i] = "ok"
    /\ result' = DictSet(result, FetchResult(i))
    /\ task' = [task EXCEPT ![i] = "got"]
    /\ i' = i + 1
    /\ UNCHANGED <<sites, fails, ncalls, elapsed, orphans, loop_state, last, strat, pc,
                   calls, queue, cap, nworkers, pool, cvars>>

\* The statuses in which a future can still be cancelled: a thread pool's
\* future until its worker calls fetch_site, a process pool's future until it
\* is moved into the call queue.
Cancellable ==
    IF strat = "multithread" THEN {"new", "taken"} ELSE {"new"}

\* lines 64, 73: the next future holds an exception: result() raises it and
\* the iterator cancels the futures that can still be cancelled
ExRaise ==
    /\ strat \in {"multiprocess3", "multithread"} /\ pc = "ex_next"
    /\ i <= N
    /\ task[i] = "err"
    /\ task' = [j \in Idx |-> IF task[j] \in Cancellable THEN "cancelled"
                                                        ELSE task[j]]
    /\ pc' = "ex_exit_err"
    /\ UNCHANGED <<sites, fails, ncalls, elapsed, orphans, loop_state, last, strat, i,
                   result, calls, queue, cap, nworkers, pool, cvars>>

\* lines 64, 73: the iterator is exhausted
ExDone ==
    /\ strat \in {"multiprocess3", "multithread"} /\ pc = "ex_next"
    /\ i > N
    /\ pc' = "ex_exit"
    /\ UNCHANGED <<sites, fails, ncalls, elapsed, orphans, loop_state, last, strat, i,
                   result, task, calls, queue, cap, nworkers, pool, cvars>>

\* lines 63, 72: leaving the with block: shutdown(wait=True) returns once the
\* workers have finished every task that was not cancelled; then return
\* result, or the exception propagates
ExShutdown ==
    /\ strat \in {"multiprocess3", "multithread"}
    /\ pc \in {"ex_exit", "ex_exit_err"}
    /\ \A j \in Idx : task[j] \notin {"new", "queued", "taken", "running"}
    /\ pool' = "down"
    /\ pc' = IF pc = "ex_exit" THEN "returned" ELSE "raised"
    /\ UNCHANGED <<sites, fails, ncalls, elapsed, orphans, loop_state, last, strat, i,
                   result, task, calls, queue, cap, nworkers, cvars>>

\* ---- the Pools left behind by multiprocess2 calls that raised ----

\* Task j of leftover Pool o moves to status st; c counts a fetch_site call.
OrphanMove(o, j, st, c) ==
    /\ orphans' = [orphans EXCEPT ![o].task[j] = st, ![o].calls[j] = @ + c]
    /\ UNCHANGED <<sites, fails, ncalls, elapsed, loop_state, last, strat, pc, i,
                   result, task, calls, queue, cap, nworkers, pool, cvars>>

\* its task handler thread goes on feeding the batch
OrphanFeed(o, j) ==
    /\ orphans[o].task[j] = "none"
    /\ \A k \in 1..(j - 1) : orphans[o].task[k] # "none"
    /\ OrphanMove(o, j, "new", 0)

\* its workers go on taking tasks ...
OrphanTake(o, j) ==
    /\ orphans[o].task[j] = "new"
    /\ \A k \in 1..(j - 1) : orphans[o].task[k] # "new"
    /\ BusyIn(orphans[o].task) < orphans[o].nworkers
    /\ OrphanMove(o, j, "taken", 0)

\* ... calling fetch_site ...
OrphanCall(o, j) ==
    /\ orphans[o].task[j] = "taken"
    /\ OrphanMove(o, j, "running", 1)

\* ... and finishing: nobody receives the result
OrphanFinish(o, j) ==
    /\ orphans[o].task[j] = "running"
    /\ OrphanMove(o, j, IF FetchFails(j) THEN "err" ELSE "ok", 0)

\* the garbage collector finds the leftover Pool, which it can once no task
\* of the Pool is outstanding; its finalizer terminates the workers
OrphanCollected(o) ==
    /\ o \in 1..Len(orphans)
    /\ \A j \in Idx : orphans[o].task[j] \in {"ok", "err"}
    /\ orphans' = [x \in 1..(Len(orphans) - 1) |->
                      IF x < o THEN orphans[x] ELSE orphans[x + 1]]
    /\ UNCHANGED <<sites, fails, ncalls, elapsed, loop_state, last, strat, pc, i,
                   result, task, calls, queue, cap, nworkers, pool, cvars>>

\* ---- coroutine(), coroutine2(), coroutine3(), async_fetch_urls.py ----

\* lines 29, 40: loop = asyncio.get_event_loop(): RuntimeError when the
\* thread's loop was unset by an earlier asyncio.run
CoGetLoop ==
    /\ strat \in {"coroutine", "coroutine2"} /\ pc = "co_getloop"
    /\ pc' = IF loop_state = "unset" THEN "raised"
             ELSE IF strat = "coroutine" THEN "co_create" ELSE "co2_wait"
    /\ UNCHANGED <<sites, fails, ncalls, elapsed, orphans, loop_state, last, strat, i, result,
                   task, calls, queue, cap, nworkers, pool, cvars>>

\* lines 31-33: t = asyncio.ensure_future(fetch_site(url)): create_task raises
\* RuntimeError on a closed loop
CoCreate ==
    /\ strat = "coroutine" /\ pc = "co_create"
    /\ i <= N
    /\ IF loop_state = "closed"
       THEN /\ pc' = "raised"
            /\ UNCHANGED <<task, i>>
       ELSE /\ task' = [task EXCEPT ![i] = "new"]
            /\ i' = i + 1
            /\ pc' = pc
    /\ UNCHANGED <<sites, fails, ncalls, elapsed, orphans, loop_state, last, strat, result,
                   calls, queue, cap, nworkers, pool, cvars>>

\* line 34: loop.run_until_complete(asyncio.wait(tasks)): RuntimeError on a
\* closed loop, ValueError from asyncio.wait on an empty list
CoWait ==
    /\ strat = "coroutine" /\ pc = "co_create"
    /\ i > N
    /\ pc' = IF loop_state = "closed" \/ N = 0 THEN "raised" ELSE "co_running"
    /\ UNCHANGED <<sites, fails, ncalls, elapsed, orphans, loop_state, last, strat, i, result,
                   task, calls, queue, cap, nworkers, pool, cvars>>

\* line 41: loop.run_until_complete(asyncio.wait(map(fetch_site, sites))):
\* RuntimeError on a closed loop; otherwise asyncio.wait refuses the bare
\* coroutines with TypeError (an empty set with AssertionError), so no task is
\* created and loop.close() is not reached
Co2Wait ==
    /\ strat = "coroutine2" /\ pc = "co2_wait"
    /\ pc' = "raised"
    /\ UNCHANGED <<sites, fails, ncalls, elapsed, orphans, loop_state, last, strat, i, result,
                   task, calls, queue, cap, nworkers, pool, cvars>>

\* line 47: asyncio.run(asyncio.wait(map(fetch_site, sites))) runs on a new
\* loop, where asyncio.wait raises as in coroutine2; on its way out
\* asyncio.run closes that loop and unsets the thread's loop
Co3Run ==
    /\ strat = "coroutine3" /\ pc = "co3_run"
    /\ pc' = "raised"
    /\ loop_state' = "unset"
    /\ UNCHANGED <<sites, fails, ncalls, elapsed, orphans, last, strat, i, result,
                   task, calls, queue, cap, nworkers, pool, cvars>>

\* the event loop runs a scheduled task up to its await: fetch_site(url) has
\* started and is suspended on its I/O (the tasks start in the order they were
\* created)
CoStep(j) ==
    /\ strat = "coroutine" /\ pc = "co_running"
    /\ task[j] = "new"
    /\ \A k \in 1..(j - 1) : task[k] # "new"
    /\ task' = [task EXCEPT ![j] = "running"]
    /\ calls' = [calls EXCEPT ![j] = @ + 1]
    /\ UNCHANGED <<sites, fails, ncalls, elapsed, orphans, loop_state, last, strat, pc, i, result,
                   queue, cap, nworkers, pool, cvars>>

\* the I/O of a suspended task is ready: the loop resumes it and fetch_site
\* returns or raises; the task is done
CoResume(j) ==
    /\ strat = "coroutine" /\ pc = "co_running"
    /\ task[j] = "running"
    /\ task' = [task EXCEPT ![j] = IF FetchFails(j) THEN "err" ELSE "ok"]
    /\ Measured(j)
    /\ UNCHANGED <<sites, fails, ncalls, orphans, loop_state, last, strat, pc, i, result,
                   calls, queue, cap, nworkers, pool, cvars>>

\* line 34 with a wait that returns as soon as one task is done
CoWaitDoneFirst ==
    /\ strat = "coroutine" /\ pc = "co_running"
    /\ \E j \in Idx : task[j] \in {"ok", "err"}
    /\ loop_state' = "closed"
    /\ pc' = "co_collect"
    /\ UNCHANGED <<sites, fails, ncalls, elapsed, orphans, last, strat, i, result,
                   task, calls, queue, cap, nworkers, pool, cvars>>

\* lines 34-35: asyncio.wait returns once every task is done (a task that
\* raised is done too); then loop.close()
CoWaitDone ==
    /\ strat = "coroutine" /\ pc = "co_running"
    /\ \A j \in Idx : task[j] \in {"ok", "err"}
    /\ loop_state' = "closed"
    /\ pc' = "co_collect"
    /\ UNCHANGED <<sites, fails, ncalls, elapsed, orphans, last, strat, i, result,
                   task, calls, queue, cap, nworkers, pool, cvars>>

\* get_result lines 22-24: the next task of the set done, in the set's order:
\* t.result() returns the tuple or raises the task's exception
CoCollect(j) ==
    /\ strat = "coroutine" /\ pc = "co_collect"
    /\ task[j] \in {"ok", "err"}
    /\ IF task[j] = "err"
       THEN /\ pc' = "raised"
            /\ UNCHANGED <<result, task>>
       ELSE /\ result' = DictSet(result, FetchResult(j))
            /\ task' = [task EXCEPT ![j] = "got"]
            /\ pc' = pc
    /\ UNCHANGED <<sites, fails, ncalls, elapsed, orphans, loop_state, last, strat, i,
                   calls, queue, cap, nworkers, pool, cvars>>

\* get_result line 25: return result
CoReturn ==
    /\ strat = "coroutine" /\ pc = "co_collect"
    /\ \A j \in Idx : task[j] = "got"
    /\ pc' = "returned"
    /\ UNCHANGED <<sites, fails, ncalls, elapsed, orphans, loop_state, last, strat, i, result,
                   task, calls, queue, cap, nworkers, pool, cvars>>

NextFetch ==
    \/ \E s \in Strategies : Call(s)
    \/ Leave
    \/ SeqFetch
    \/ SeqInsert
    \/ SeqReturn
    \/ MpQueue
    \/ MpStart
    \/ MpSpawnDone
    \/ \E j \in Idx : MpChildCall(j)
    \/ \E j \in Idx : MpFetched(j)
    \/ \E j \in Idx : MpPut(j)
    \/ \E j \in Idx : MpExit(j)
    \/ MpJoin
    \/ MpJoinDone
    \/ MpGet
    \/ MpReturn
    \/ PoolCreate
    \/ Mp2Imap
    \/ \E j \in Idx : Mp2Feed(j)
    \/ ExSubmit
    \/ ExSubmitDone
    \/ \E j \in Idx : ExQueue(j)
    \/ \E j \in Idx : PoolTake(j)
    \/ \E j \in Idx : PoolCall(j)
    \/ \E j \in Idx : Mp2Finish(j)
    \/ Mp2Next
    \/ Mp2Close
    \/ Mp2Return
    \/ PoolWorkersExit
    \/ \E j \in Idx : ExFinish(j)
    \/ ExNext
    \/ ExRaise
    \/ ExDone
    \/ ExShutdown
    \/ \E o \in 1..Len(orphans), j \in Idx : OrphanFeed(o, j)
    \/ \E o \in 1..Len(orphans), j \in Idx : OrphanTake(o, j)
    \/ \E o \in 1..Len(orphans), j \in Idx : OrphanCall(o, j)
    \/ \E o \in 1..Len(orphans), j \in Idx : OrphanFinish(o, j)
    \/ \E o \in 1..Len(orphans) : OrphanCollected(o)
    \/ CoGetLoop
    \/ CoCreate
    \/ CoWait
    \/ Co2Wait
    \/ Co3Run
    \/ \E j \in Idx : CoStep(j)
    \/ \E j \in Idx : CoResume(j)
    \/ CoWaitDone
    \/ \E j \in Idx : CoCollect(j)
    \/ CoReturn

-----------------------------------------------------------------------------
(* Properties of the fetch strategies                                      *)

\* The strategies named by the equivalence property.
SixStrategies ==
    {"sequential", "multiprocess", "multiprocess2", "multiprocess3",
     "multithread", "coroutine"}

UniqueKeys == \A a, b \in Idx : a # b => sites[a] # sites[b]

\* The call has ended: it returned its dict or an exception left it.
Ended == pc \in {"returned", "raised"}

\* The content the stub determines for the batch: len(key) for every key.
StubMap == {<<sites[j], KeyLen(sites[j])>> : j \in Idx}

\* C6: in a fresh process, a strategy called on a batch of unique keys with
\* the never-failing stub returns a dict, and its content is the stub's for
\* the batch, the same for every strategy (sequential included).
C6_StrategyEquivalence ==
    (last = NoLast /\ strat \in SixStrategies /\ Ended
        /\ UniqueKeys /\ fails = {}) =>
        (pc = "returned" /\ MapOf(result) = StubMap)

\* The same on the batches that hold at least one key.
C6_NonEmptyEquivalence ==
    (last = NoLast /\ strat \in SixStrategies /\ Ended
        /\ UniqueKeys /\ fails = {} /\ N >= 1) =>
        (pc = "returned" /\ MapOf(result) = StubMap)

\* C7: a call on a batch that holds a key twice never returns a dict (it ends
\* with an error instead of a silently merged dict).
C7_DuplicateKeyRejected == (~UniqueKeys /\ Ended) => pc # "returned"

\* C8: one failure policy: when the fetch operation fails for a key of the
\* batch, two calls made one after the other end the same way: both raise,
\* or both return a dict that holds an entry for the failed key.
C8_UniformFailurePolicy ==
    (fails # {} /\ last.outcome # "none" /\ Ended) =>
        \/ pc = "raised" /\ last.outcome = "raised"
        \/ /\ pc = "returned" /\ last.outcome = "returned"
           /\ fails \subseteq KeysOf(result)
           /\ fails \subseteq {e[1] : e \in last.map}

\* C9: multiprocess waits in join only once every child was started, drains
\* only once every child has terminated, and when no fetch fails returns with
\* the channel empty and exactly one entry per key of the batch.
C9_ProcessPoolComplete ==
    strat = "multiprocess" =>
        /\ pc = "mp_join" => \A j \in Idx : task[j] # "none"
        /\ pc \in {"mp_drain", "returned"} =>
               \A j \in Idx : task[j] \in {"ok", "err"}
        /\ (pc = "returned" /\ fails = {}) =>
               /\ queue = <<>>
               /\ KeysOf(result) = Range(sites)
               /\ Len(result) = Cardinality(Range(sites))
               /\ MapOf(result) = StubMap

\* Two children sent their results and the parent received both.
C9_Witness ==
    /\ strat = "multiprocess" /\ pc = "returned"
    /\ fails = {} /\ UniqueKeys /\ N = 2
    /\ Len(result) = 2 /\ queue = <<>>
    /\ result[1][1] = sites[2]

\* C10: a multiprocess call that has not ended can always take a step: no
\* state has a child blocked in put on a full pipe with the parent waiting in
\* join, so the call goes on to return.
C10_MultiprocessProgress ==
    (strat = "multiprocess" /\ ~Ended) => ENABLED NextFetch

\* The keys of a dict in its iteration order.
KeySeq(d) == [x \in 1..Len(d) |-> d[x][1]]

\* The order in which a dict holds the keys assigned to it one after the
\* other: a key keeps the place of its first assignment.
RECURSIVE FirstOccurrences(_)
FirstOccurrences(s) ==
    IF s = <<>> THEN <<>>
    ELSE LET r == FirstOccurrences(SubSeq(s, 1, Len(s) - 1))
         IN  IF s[Len(s)] \in Range(r) THEN r ELSE Append(r, s[Len(s)])

\* The first n keys of the batch.
Prefix(n) == SubSeq(sites, 1, n)

\* C11: sequential works through the batch in input order: the fetch of key
\* i starts only when the results of all keys before it are in the dict and
\* no later key was touched, the dict holds the keys in batch order at every
\* moment, and the returned dict iterates in the order of the batch.
C11_SequentialOrder ==
    (strat = "sequential" /\ pc # "idle") =>
        /\ pc = "seq_fetch" =>
               \A j \in Idx : /\ task[j] = (IF j < i THEN "got" ELSE "none")
                              /\ calls[j] = (IF j < i THEN 1 ELSE 0)
        /\ pc = "seq_insert" =>
               \A j \in Idx :
                   /\ task[j] = (IF j < i THEN "got"
                                 ELSE IF j = i THEN "ok" ELSE "none")
                   /\ calls[j] = (IF j <= i THEN 1 ELSE 0)
        /\ KeySeq(result) = FirstOccurrences(Prefix(i - 1))
        /\ pc = "returned" =>
               /\ i = N + 1
               /\ UniqueKeys => KeySeq(result) = sites

\* sequential returned a dict of two keys, in the order of the batch.
C11_Witness ==
    /\ strat = "sequential" /\ pc = "returned"
    /\ N = 2 /\ UniqueKeys
    /\ KeySeq(result) = sites

\* Where a coroutine call stands with its tasks: none runs before the
\* orchestrator blocks, all are submitted when it blocks, and none is pending
\* once the wait has returned.
CoFanIn ==
    strat = "coroutine" =>
        /\ pc = "co_getloop" =>
               \A j \in Idx : task[j] = "none" /\ calls[j] = 0
        /\ pc = "co_create" =>
               \A j \in Idx : /\ task[j] = (IF j < i THEN "new" ELSE "none")
                              /\ calls[j] = 0
        /\ pc = "co_running" => \A j \in Idx : task[j] # "none"
        /\ pc = "co_collect" => \A j \in Idx : task[j] \in {"ok", "err", "got"}
        /\ pc = "returned" => \A j \in Idx : task[j] = "got"

\* C12: in coroutine every task is submitted before the orchestrator blocks
\* in run_until_complete, it blocks there once (entered after the last
\* submission, left only towards get_result, never entered again), and when
\* the wait returns no task is pending: get_result gets every submitted task.
C12_CoroutineFanIn ==
    [][/\ CoFanIn /\ CoFanIn'
       /\ strat = "coroutine" =>
              /\ (pc # "co_running" /\ pc' = "co_running") =>
                     (pc = "co_create" /\ i > N)
              /\ pc = "co_running" => pc' \in {"co_running", "co_collect"}
              /\ pc = "co_collect" => pc' \in {"co_collect", "returned", "raised"}
              /\ (pc # "co_collect" /\ pc' = "co_collect") =>
                     \A j \in Idx : task'[j] \in {"ok", "err"}]_vars

\* The wait on two tasks has just returned: both are done, none was collected.
C12_Witness ==
    /\ strat = "coroutine" /\ pc = "co_collect"
    /\ N = 2 /\ loop_state = "closed"
    /\ \A j \in Idx : task[j] \in {"ok", "err"}

\* C13: a strategy called again right after it returned a dict for the
\* batch, with the never-failing stub, returns again, and the same dict
\* content: nothing the first call left behind makes the second fail or differ.
C13_RerunIdempotent ==
    (last.strategy = strat /\ last.outcome = "returned"
        /\ Ended /\ fails = {}) =>
        (pc = "returned" /\ MapOf(result) = last.map)

\* The strategies that create worker processes or threads.
PoolStrategies ==
    {"multiprocess", "multiprocess2", "multiprocess3", "multithread"}

\* No worker of the call is alive: every child process has exited and the
\* pool, if the call made one, has no worker left.
WorkersTerminated ==
    /\ pool \in {"none", "down"}
    /\ \A j \in Idx : task[j] \notin {"started", "queued", "taken",
                                       "running", "sending", "sent"}

\* C14: when a strategy that creates workers gives control back to its
\* caller, with its dict or with an exception, every worker process or
\* thread it created has terminated.
C14_NoDanglingWorkers ==
    (strat \in PoolStrategies /\ Ended) => WorkersTerminated

\* The same for the calls that return their dict.
C14_NoDanglingWorkersAtReturn ==
    (strat \in PoolStrategies /\ pc = "returned") => WorkersTerminated

\* The number of times fetch_site was called in this run for the entries of
\* the batch at the indexes in S.
RECURSIVE SumCalls(_)
SumCalls(S) ==
    IF S = {} THEN 0
    ELSE LET j == CHOOSE x \in S : TRUE IN calls[j] + SumCalls(S \ {j})

\* The number of times fetch_site was called in this run with key k.
FetchCount(k) == SumCalls({j \in Idx : sites[j] = k})

\* C17: in one run of a strategy over a batch of unique keys fetch_site is
\* invoked exactly once per key: at no moment of the run has a key been
\* fetched twice, and when the run has ended, with its dict or with an
\* exception, no key of the batch has been skipped.  Stated for the six
\* strategies of the equivalence property.
C17_ExactlyOnce ==
    (strat \in SixStrategies /\ UniqueKeys) =>
        /\ \A k \in Range(sites) : FetchCount(k) <= 1
        /\ Ended => \A k \in Range(sites) : FetchCount(k) = 1

\* The part of it that holds in every run of every strategy: no key is fetched
\* twice, a key was fetched exactly when its worker (process, thread or task)
\* has called fetch_site, and a run that returns its dict has fetched every
\* key once.
C17_AtMostOnce ==
    (UniqueKeys /\ strat # "none") =>
        /\ \A k \in Range(sites) : FetchCount(k) <= 1
        /\ \A j \in Idx :
               calls[j] = (IF task[j] \in {"none", "new", "started", "queued",
                                            "taken", "cancelled"}
                           THEN 0 ELSE 1)
        /\ pc = "returned" => \A k \in Range(sites) : FetchCount(k) = 1

\* The Pools that multiprocess2 calls have left behind fetch no key twice
\* either, whatever the process does meanwhile.
C17_LeftoverAtMostOnce ==
    UniqueKeys =>
        \A o \in 1..Len(orphans) : \A j \in Idx :
            orphans[o].calls[j] = (IF orphans[o].task[j] \in {"running", "ok", "err"}
                                   THEN 1 ELSE 0)

\* C18: in a multithread call every step that changes the dict is a step of
\* the orchestrator's loop: it inserts the result of the future the loop is
\* at and moves on to the next, and no worker moves in that step; a step in
\* which a worker finishes its fetch leaves the dict alone.  Insertions are
\* therefore made one at a time, by one thread.
C18_OrchestratorInserts ==
    [][(strat = "multithread" /\ strat' = "multithread") =>
          /\ result' # result =>
                 /\ pc = "ex_next" /\ pc' = "ex_next"
                 /\ i <= N /\ i' = i + 1
                 /\ task[i] = "ok" /\ task'[i] = "got"
                 /\ result' = DictSet(result, FetchResult(i))
                 /\ \A j \in Idx \ {i} : task'[j] = task[j]
          /\ (\E j \in Idx : task[j] = "running" /\ task'[j] # "running") =>
                 result' = result]_vars

\* The orchestrator has inserted a result while a worker thread is still
\* fetching.
C18_Witness ==
    /\ strat = "multithread" /\ pc = "ex_next"
    /\ Len(result) >= 1
    /\ \E j \in Idx : task[j] = "running"

\* The strategies that consume their results through pool.map.
MapStrategies == {"multiprocess3", "multithread"}

\* What holds of the dict in every state of a pool call: with pool.map it
\* has the keys of the batch up to the loop's position, in batch order; and
\* a pool call that returns for unique keys and the never-failing stub has
\* the content the stub determines, whatever the mode.
SubmissionOrdered ==
    /\ (strat \in MapStrategies /\ pc \in {"ex_pool", "ex_submit"}) =>
           result = <<>>
    /\ (strat \in MapStrategies /\ pc \notin {"idle", "ex_pool", "ex_submit"}) =>
           /\ KeySeq(result) = FirstOccurrences(Prefix(i - 1))
           /\ (pc = "returned" /\ UniqueKeys) => KeySeq(result) = sites
    /\ (strat \in MapStrategies \cup {"multiprocess2"} /\ pc = "returned"
           /\ UniqueKeys /\ fails = {}) =>
           /\ MapOf(result) = StubMap
           /\ Len(result) = N

\* C19: multiprocess3 and multithread insert in batch order whatever order
\* the workers complete in, so the returned dict iterates in batch order;
\* multiprocess2 inserts in completion order: a worker that completes puts
\* its result at the end of the line and the loop inserts the result at the
\* head of the line; for unique keys both modes return the same content.
C19_SubmissionOrder ==
    [][/\ SubmissionOrdered /\ SubmissionOrdered'
       /\ (strat = "multiprocess2" /\ strat' = "multiprocess2") =>
              /\ result' # result =>
                     /\ queue # <<>> /\ Head(queue).ok
                     /\ result' = DictSet(result, Head(queue).val)
                     /\ queue' = Tail(queue)
              /\ \A j \in Idx :
                     (task[j] = "running" /\ task'[j] # "running") =>
                         /\ queue' = Append(queue, [ok |-> ~FetchFails(j),
                                                    val |-> FetchResultNew(j)])
                         /\ result' = result]_vars

\* A pool.map call in which the second worker completed first: its result is
\* ready and not inserted, the loop waits for the first.
C19_Witness ==
    /\ strat \in MapStrategies /\ pc = "ex_next"
    /\ N = 2 /\ UniqueKeys
    /\ i = 1 /\ task[1] = "running" /\ task[2] = "ok"
    /\ result = <<>>

-----------------------------------------------------------------------------
(* Specifications                                                          *)

\* count_n_print.py run as a script.
InitCounterScript == InitCounter /\ FetchUnused

SpecCounter == InitCounterScript /\ [][NextCounter]_vars

\* The same with the scheduler giving every runnable thread its turn.
SpecCounterFair ==
    /\ SpecCounter
    /\ WF_vars(MainNext)
    /\ \A w \in Workers : WF_vars(WorkerNext(w))

\* A process calling the fetch strategies.
InitFetchProcess == InitFetch /\ CounterUnused

SpecFetch == InitFetchProcess /\ [][NextFetch]_vars

\* A fresh process that calls one strategy, once: after the call has ended
\* only what it left running goes on.
NextFetchOnce == NextFetch /\ (last # NoLast => strat' = "none")

SpecFetchOnce == InitFetchProcess /\ [][NextFetchOnce]_vars

====
